---- MODULE Spec2Model ----
(***************************************************************************)
(* EcoStock (src/app.py): a Streamlit script that is re-run from its first *)
(* line on every user interaction.  A run loads the inventory table, fits  *)
(* a linear demand model, predicts, classifies the risk of every record    *)
(* and renders; the Add Item and Confirm Delete handlers rewrite the store *)
(* file mock_inventory.csv (read whole file, write whole file).            *)
(*                                                                         *)
(* Units.  Time is counted in half days: an even timestamp is a midnight,  *)
(* so a calendar date d is the timestamp 2*d.  Money-like reals with two   *)
(* decimals (PredictedDemand) are counted in hundredths.  StockQty is a     *)
(* whole number; a WeeklySales cell is kept as its CSV text everywhere and  *)
(* parsed where the fit needs the number.  Exact rationals are <<n, d>>.    *)
(***************************************************************************)
EXTENDS Integers, Sequences, FiniteSets, TLC

VARIABLES
    store,              \* mock_inventory.csv: the sequence of its rows, as text cells
    today,              \* what datetime.today() returns, in half days
    ticks,              \* how often the clock has advanced (bounded)
    pc,                 \* per session: the position of the script run
    event,              \* per session: the widget event that started the run
    uploaded_file,      \* per session: the file_uploader's value, None or rows
    manual_data,        \* per session: st.session_state["manual_data"]
    selected_category,  \* per session: the multiselect's value
    show_delete,        \* per session: st.session_state.show_delete
    selected_idx,       \* per session: st.session_state.selected_idx
    df,                 \* per session: the script's data frame df
    model,              \* per session: the fitted model of the run
    filtered_df,        \* per session: line 147
    at_risk,            \* per session: lines 148-149
    local,              \* per session: the handler's frame read from the store
    message,            \* per session: the last st.success / st.error / exception
    trace,              \* per session: the stages the current run has executed
    run_in,             \* per session: what the current run read (history)
    prev_run,           \* per session: inputs and outputs of the last complete run
    last_op             \* per session: the store operation the session's last
                        \* handler finished, and whether the file had changed
                        \* between its read and its write (history)

vars == <<store, today, ticks, pc, event, uploaded_file, manual_data,
          selected_category, show_delete, selected_idx, df, model, filtered_df,
          at_risk, local, message, trace, run_in, prev_run, last_op>>

\* ------------------------------------------------------------------ bounds
MaxStore == 2           \* rows the store may hold before Add Item is disabled
MaxTicks == 1           \* clock advances
MaxStock == 13          \* largest StockQty drawn for the classifier's inputs
MaxRows == 3            \* rows of the frames drawn for the filter and the sort

\* ------------------------------------------------------- values and cells
nan == "<nan>"          \* pandas' missing value (NaN / NaT)

\* the sequence <<F(1), ..., F(n)>>, with every element computed (SubSeq
\* evaluates the function it is given)
Tab(F(_), n) == SubSeq([i \in 1..n |-> F(i)], 1, n)

\* pandas.read_csv's default na_values that the model's texts can hit
NaTexts == {"", "NA"}

\* read_csv of one text cell: a missing-value text becomes NaN
ReadText(t) == IF t \in NaTexts THEN nan ELSE t

\* to_csv of one object cell: NaN is written as the empty text
WriteText(v) == IF v = nan THEN "" ELSE v

\* pandas ==: NaN equals nothing, itself included
EqCell(a, b) == a # nan /\ b # nan /\ a = b

\* a datetime.date as pandas reads it back: that day's midnight
DateToTimestamp(d) == 2 * d

\* Timestamp.normalize(): the time of day is dropped
normalize(ts) == ts - (ts % 2)

\* (ExpiryDate - datetime.today()).dt.days: the floor of the difference in days
DaysBetween(expiry, now) == (expiry - now) \div 2

Persisted == {"Product", "Category", "StockQty", "WeeklySales", "ExpiryDate",
              "StoreID", "Weather", "HolidayFlag"}
Derived == {"DaysToExpire", "PredictedDemand", "RiskLevel"}

\* row r with column c set to v (assigning a column adds or overwrites it)
SetCol(r, c, v) == (c :> v) @@ r

\* the columns of row r that are in the set cols
Restrict(r, cols) == [c \in DOMAIN r \cap cols |-> r[c]]

\* pd.read_csv: every row of the file, the text cells parsed
ReadRow(r) == [c \in DOMAIN r |-> IF c = "Product" THEN ReadText(r[c]) ELSE r[c]]
read_csv(file) == Tab(LAMBDA i : ReadRow(file[i]), Len(file))

\* DataFrame.to_csv: every column of the frame is written
WriteRow(r) == [c \in DOMAIN r |-> IF c = "Product" THEN WriteText(r[c]) ELSE r[c]]
to_csv(frame) == Tab(LAMBDA i : WriteRow(frame[i]), Len(frame))

\* ------------------------------------------------------ exact arithmetic
Abs(x) == IF x < 0 THEN -x ELSE x

RECURSIVE GCD(_, _)
GCD(a, b) == IF b = 0 THEN a ELSE GCD(b, a % b)

Rat(n, d) ==
    LET g == GCD(Abs(n), Abs(d))
    IN  IF d < 0 THEN <<(-n) \div g, (-d) \div g>> ELSE <<n \div g, d \div g>>

RInt(n) == <<n, 1>>
RNeg(a) == <<-a[1], a[2]>>

\* common factors are cancelled before multiplying: TLC's integers are 32 bit
RAdd(a, b) ==
    IF a[1] = 0 THEN b
    ELSE IF b[1] = 0 THEN a
    ELSE IF a[2] = 1 /\ b[2] = 1 THEN <<a[1] + b[1], 1>>
    ELSE LET g == GCD(a[2], b[2])
         IN  Rat(a[1] * (b[2] \div g) + b[1] * (a[2] \div g), (a[2] \div g) * b[2])
RSub(a, b) == RAdd(a, RNeg(b))
RMul(a, b) ==
    IF a[1] = 0 \/ b[1] = 0 THEN RInt(0)
    ELSE IF a[2] = 1 /\ b[2] = 1 THEN <<a[1] * b[1], 1>>
    ELSE LET g == GCD(Abs(a[1]), b[2])
             h == GCD(Abs(b[1]), a[2])
         IN  <<(a[1] \div g) * (b[1] \div h), (a[2] \div h) * (b[2] \div g)>>
RDiv(a, b) == RMul(a, IF b[1] < 0 THEN <<-b[2], -b[1]>> ELSE <<b[2], b[1]>>)

\* TRUE for every sequence; evaluating it computes the whole of x first, which
\* keeps TLC's evaluation of the recursions below shallow
Forced(x) == Len(x) >= 0

\* vectors are sequences of rationals
VSub(u, v) == Tab(LAMBDA i : RSub(u[i], v[i]), Len(u))
VAdd(u, v) == Tab(LAMBDA i : RAdd(u[i], v[i]), Len(u))
VScale(c, v) == Tab(LAMBDA i : RMul(c, v[i]), Len(v))
VZero(n) == Tab(LAMBDA i : RInt(0), n)

\* the sum of u[i] * v[i] for i in lo..hi, halving the range
RECURSIVE DotRange(_, _, _, _)
DotRange(u, v, lo, hi) ==
    IF lo > hi THEN RInt(0)
    ELSE IF lo = hi THEN RMul(u[lo], v[lo])
    ELSE LET mid == (lo + hi) \div 2
         IN  RAdd(DotRange(u, v, lo, mid), DotRange(u, v, mid + 1, hi))

\* the inner product of the first n coordinates
Dot(u, v, n) == DotRange(u, v, 1, n)

IsZero(v, n) == \A i \in 1..n : v[i][1] = 0

\* v minus its projections on the vectors of B, orthogonal in the first n coordinates
RECURSIVE Reduce(_, _, _)
Reduce(v, B, n) ==
    IF B = <<>> THEN v
    ELSE LET b == Head(B)
             c == RDiv(Dot(v, b, n), Dot(b, b, n))
             w == Tab(LAMBDA i : RSub(v[i], RMul(c, b[i])), Len(v))
         IN  IF c[2] > 0 /\ Forced(w) THEN Reduce(w, Tail(B), n) ELSE w

\* Gram-Schmidt on the first n coordinates; the other coordinates ride along
RECURSIVE Orthogonalise(_, _, _)
Orthogonalise(vs, B, n) ==
    IF vs = <<>> THEN B
    ELSE LET w == Reduce(Head(vs), B, n)
         IN  IF IsZero(w, n) THEN Orthogonalise(Tail(vs), B, n)
             ELSE Orthogonalise(Tail(vs), Append(B, w), n)

\* acc plus the sum over b in B of (v.b / b.b) * (coordinates from+1 .. of b)
RECURSIVE CombineOnto(_, _, _, _, _)
CombineOnto(acc, v, B, n, from) ==
    IF B = <<>> THEN acc
    ELSE LET b == Head(B)
             c == RDiv(Dot(v, b, n), Dot(b, b, n))
             next == Tab(LAMBDA i : RAdd(acc[i], RMul(c, b[from + i])), Len(acc))
         IN  IF c[2] > 0 /\ Forced(next) THEN CombineOnto(next, v, Tail(B), n, from)
             ELSE next

Combine(v, B, n, from, len) == CombineOnto(VZero(len), v, B, n, from)

\* numpy round(2) of an exact value, in hundredths: round half to even
Round2(q) ==
    LET t == 100 * q[1]
        f == t \div q[2]
        r == t - f * q[2]
    IN  IF 2 * r < q[2] THEN f
        ELSE IF 2 * r > q[2] THEN f + 1
        ELSE IF f % 2 = 0 THEN f ELSE f + 1

\* ------------------------------------------------------- the demand model
\* OneHotEncoder sorts the values it has seen; these are the sorted domains
CategoryOrder == <<"Bakery", "Beverages", "Condiments", "Dairy", "Fruits",
                   "Packaged", "Snacks">>
StoreOrder == <<"S01", "S02", "S03">>
WeatherOrder == <<"Cloudy", "Hot", "Rainy", "Sunny">>

\* the values of column col present in frame X, in the encoder's order
Seen(order, col, X) ==
    SelectSeq(order, LAMBDA v : \E i \in 1..Len(X) : X[i][col] = v)

\* one row through the ColumnTransformer: one indicator per seen value of
\* Category, StoreID and Weather (all zero for an unseen value:
\* handle_unknown='ignore'), then HolidayFlag passed through
Encode(x, cats) ==
    Tab(LAMBDA i : RInt(IF x.Category = cats[1][i] THEN 1 ELSE 0), Len(cats[1]))
    \o Tab(LAMBDA i : RInt(IF x.StoreID = cats[2][i] THEN 1 ELSE 0), Len(cats[2]))
    \o Tab(LAMBDA i : RInt(IF x.Weather = cats[3][i] THEN 1 ELSE 0), Len(cats[3]))
    \o <<RInt(x.HolidayFlag)>>

RECURSIVE VSumOnto(_, _)
VSumOnto(acc, vs) ==
    IF vs = <<>> THEN acc
    ELSE LET next == VAdd(acc, Head(vs))
         IN  IF Forced(next) THEN VSumOnto(next, Tail(vs)) ELSE next

VSum(vs, len) == VSumOnto(VZero(len), vs)

\* the CSV texts of the whole numbers 0, 1, ... (one spelling per number)
Numerals == <<"0", "1", "2", "3", "4", "5", "6", "7", "8", "9", "10", "11", "12",
              "13", "14", "15", "16", "17", "18", "19", "20">>

\* a number as to_csv writes it
FormatNumber(n) == Numerals[n + 1]

\* whether LinearRegression accepts the target cell: its text is a number
IsNumeric(t) == \E k \in 1..Len(Numerals) : Numerals[k] = t

\* the number a numeric text is parsed to
ParseNumber(t) == (CHOOSE k \in 1..Len(Numerals) : Numerals[k] = t) - 1

NoModel == [ok |-> FALSE, categories |-> <<>>, coef |-> <<>>, intercept |-> RInt(0)]

\* LinearRegression.fit on the encoded frame: X and y are centred, the
\* least-squares solution of minimum norm is taken (the design is rank
\* deficient: the indicators of one column sum to one) and the intercept is
\* mean(y) - mean(X).coef
LeastSquares(X, y) ==
    LET n == Len(X)
        p == Len(X[1])
        xbar == VScale(Rat(1, n), VSum(X, p))
        ybar == RDiv(Dot(y, Tab(LAMBDA i : RInt(1), n), n), RInt(n))
        Xc == Tab(LAMBDA i : VSub(X[i], xbar), n)
        yc == Tab(LAMBDA i : RSub(y[i], ybar), n)
        \* column j of the Gram matrix Xc.Xc^T, followed by the j-th unit
        \* vector: Gram-Schmidt on the first n coordinates leaves, behind each
        \* basis vector, the coefficients that produce it from the columns
        gram == Tab(LAMBDA j :
                    Tab(LAMBDA i : IF i <= n THEN Dot(Xc[i], Xc[j], p)
                                   ELSE RInt(IF i - n = j THEN 1 ELSE 0), 2 * n), n)
        \* Gram.alpha is the projection of yc on the columns of Xc
        alpha == Combine(yc, Orthogonalise(gram, <<>>, n), n, n, n)
        \* Xc^T.alpha lies in the row space of Xc: of all least-squares
        \* solutions it is the one of minimum norm
        coef == VSum(Tab(LAMBDA i : VScale(alpha[i], Xc[i]), n), p)
    IN  IF Forced(xbar) /\ Forced(Xc) /\ Forced(yc) /\ Forced(gram) /\ Forced(alpha)
           /\ Forced(coef)
        THEN [coef |-> coef, intercept |-> RSub(ybar, Dot(xbar, coef, p))]
        ELSE [coef |-> <<>>, intercept |-> RInt(0)]

\* a fit that takes a target cell that is no number as 0
train_model_coerce(d) ==
    IF Len(d) = 0
    THEN NoModel
    ELSE LET cats == <<Seen(CategoryOrder, "Category", d),
                       Seen(StoreOrder, "StoreID", d),
                       Seen(WeatherOrder, "Weather", d)>>
             X == Tab(LAMBDA i : Encode(d[i], cats), Len(d))
             y == Tab(LAMBDA i : RInt(IF IsNumeric(d[i].WeeklySales)
                                      THEN ParseNumber(d[i].WeeklySales) ELSE 0), Len(d))
             ls == LeastSquares(X, y)
         IN  [ok |-> TRUE, categories |-> cats, coef |-> ls.coef,
              intercept |-> ls.intercept]

\* train_model (lines 52-61); the fit raises on an empty frame and on a
\* target that is not a number
train_model(d) ==
    IF Len(d) = 0 \/ \E i \in 1..Len(d) : ~IsNumeric(d[i].WeeklySales)
    THEN NoModel
    ELSE LET cats == <<Seen(CategoryOrder, "Category", d),
                       Seen(StoreOrder, "StoreID", d),
                       Seen(WeatherOrder, "Weather", d)>>
             X == Tab(LAMBDA i : Encode(d[i], cats), Len(d))
             y == Tab(LAMBDA i : RInt(ParseNumber(d[i].WeeklySales)), Len(d))
             ls == LeastSquares(X, y)
         IN  [ok |-> TRUE, categories |-> cats, coef |-> ls.coef,
              intercept |-> ls.intercept]

\* model.predict for one row, exact
predict(m, x) ==
    LET e == Encode(x, m.categories)
    IN  RAdd(m.intercept, Dot(e, m.coef, Len(e)))

\* apply_predictions (lines 63-66): every row gets PredictedDemand, rounded
apply_predictions(d, m) ==
    Tab(LAMBDA i : SetCol(d[i], "PredictedDemand", Round2(predict(m, d[i]))), Len(d))

\* ------------------------------------------------------ the risk classifier
\* 2^n modulo 10, for n >= 1
Pow2Mod10(n) == <<6, 2, 4, 8>>[(n % 4) + 1]

\* the binary exponent of x / 10, for x >= 9: the largest e with 2^e <= x / 10
RECURSIVE Binade(_, _)
Binade(x, e) == IF 10 * 2^(e + 1) > x THEN e ELSE Binade(x, e + 1)

\* whether the binary64 product 0.9 * S is a double above nine tenths of S.
\* The double 0.9 lies above 9/10 and the product is rounded to 53 bits; for
\* S = 13, 21, 26, 31, 37, ... the result is the double above the one that
\* the two-decimal value 9S/10 is stored as
RoundsAbove(S) ==
    S > 0 /\ (((9 * S) % 10) * Pow2Mod10(52 - Binade(9 * S, -1))) % 10 = 4

\* PredictedDemand < 0.7 * StockQty (line 70), PredictedDemand in hundredths:
\* the binary64 product 0.7 * S is the double of 7S/10 or the one below it
\* (S = 3, 6, 7, ...), never one above it, and no two-decimal value lies in
\* between
Below07(pd, S) == pd < 70 * S

\* PredictedDemand < 0.9 * StockQty (line 71) as binary64 evaluates it
Below09(pd, S) == pd < 90 * S \/ (pd = 90 * S /\ RoundsAbove(S))

\* lines 69-72
conditions(r) ==
    <<Below07(r.PredictedDemand, r.StockQty) /\ r.DaysToExpire < 5,
      Below09(r.PredictedDemand, r.StockQty)
          \/ (r.DaysToExpire >= 5 /\ r.DaysToExpire < 8)>>

\* line 73
choices == <<"HIGH", "MEDIUM">>

\* np.select: the choice of the first condition that holds, else the default
select(condlist, choicelist, default) ==
    IF \E k \in 1..Len(condlist) : condlist[k]
    THEN choicelist[CHOOSE k \in 1..Len(condlist) :
                        condlist[k] /\ \A j \in 1..(k - 1) : ~condlist[j]]
    ELSE default

\* classify_risk (lines 68-75)
classify_risk(d) ==
    Tab(LAMBDA i : SetCol(d[i], "RiskLevel", select(conditions(d[i]), choices, "LOW")),
        Len(d))

\* ---------------------------------------------------------------- loading
\* load_data (lines 43-50): the uploaded file if there is one, else the store
\* file; now is datetime.today().  An uploaded file is <<rows>>, none is <<>>
load_data(uploaded, mock_inventory, now) ==
    LET d == read_csv(IF uploaded # <<>> THEN uploaded[1] ELSE mock_inventory)
    IN  Tab(LAMBDA i : SetCol(d[i], "DaysToExpire", DaysBetween(d[i].ExpiryDate, now)),
            Len(d))

\* pd.DataFrame of one entry dict (lines 92-93, 134): the date becomes that
\* day's midnight and the number the text to_csv writes for it
EntryRow(e) ==
    [e EXCEPT !.ExpiryDate = DateToTimestamp(@), !.WeeklySales = FormatNumber(@)]

\* lines 92-94: the frame of the staged entries with their DaysToExpire
manual_df(staged, now) ==
    Tab(LAMBDA i : SetCol(EntryRow(staged[i]), "DaysToExpire",
                          DaysBetween(DateToTimestamp(staged[i].ExpiryDate), now)),
        Len(staged))

\* a concatenation that keeps the first frame only
concat_first(a, b) == a

\* pd.concat(..., ignore_index=True)
concat(a, b) == a \o b

\* ------------------------------------------------- the filter and the sort
\* df['Category'].unique() (line 145)
unique(d, col) == {d[i][col] : i \in 1..Len(d)}

\* the filter without the fallback of an empty selection
FilteredNoFallback(d, selected) == SelectSeq(d, LAMBDA r : r.Category \in selected)

\* line 147: an empty selection is falsy and keeps the whole frame
Filtered(d, selected) ==
    IF selected # {} THEN SelectSeq(d, LAMBDA r : r.Category \in selected) ELSE d

\* Python orders strings by code point
CodePoints(level) ==
    CASE level = "HIGH" -> <<72, 73, 71, 72>>
      [] level = "MEDIUM" -> <<77, 69, 68, 73, 85, 77>>
      [] OTHER -> <<76, 79, 87>>

RECURSIVE LexLess(_, _)
LexLess(a, b) ==
    IF b = <<>> THEN FALSE
    ELSE IF a = <<>> THEN TRUE
    ELSE IF Head(a) # Head(b) THEN Head(a) < Head(b)
    ELSE LexLess(Tail(a), Tail(b))

\* an order on DaysToExpire alone
KeyLessByDaysOnly(r, q) == r.DaysToExpire < q.DaysToExpire

\* the order of sort_values(by=['RiskLevel', 'DaysToExpire'])
KeyLess(r, q) ==
    LexLess(CodePoints(r.RiskLevel), CodePoints(q.RiskLevel))
    \/ (r.RiskLevel = q.RiskLevel /\ r.DaysToExpire < q.DaysToExpire)

\* r behind every row of the sorted frame that is not above it
RECURSIVE Insert(_, _)
Insert(r, sorted) ==
    IF sorted = <<>> THEN <<r>>
    ELSE IF KeyLess(r, Head(sorted)) THEN <<r>> \o sorted
    ELSE <<Head(sorted)>> \o Insert(r, Tail(sorted))

RECURSIVE SortOnto(_, _)
SortOnto(acc, rest) ==
    IF rest = <<>> THEN acc ELSE SortOnto(Insert(Head(rest), acc), Tail(rest))

\* sort_values on the two keys: rows with equal keys keep their order
sort_values(d) == SortOnto(<<>>, d)

\* lines 148-149
AtRisk(fd) == sort_values(SelectSeq(fd, LAMBDA r : r.RiskLevel \in {"HIGH", "MEDIUM"}))

\* ------------------------------------------------------------ the handlers
\* an append to what the store file holds at the time of the write
df_updated_fresh(df_existing, new_entry) ==
    concat(read_csv(store), <<EntryRow(new_entry)>>)

\* line 134
df_updated(df_existing, new_entry) == concat(df_existing, <<EntryRow(new_entry)>>)

\* lines 212-219: pandas == on the three text columns and on the normalized dates
condition(r, row) ==
    /\ EqCell(r.Product, row.Product)
    /\ EqCell(r.Category, row.Category)
    /\ EqCell(r.StoreID, row.StoreID)
    /\ normalize(r.ExpiryDate) = normalize(row.ExpiryDate)

\* line 221
updated_df(full_df, row) == SelectSeq(full_df, LAMBDA r : ~condition(r, row))

\* a handler that reads the store with load_data
ReadStoreAsLoad(file) == load_data(<<>>, file, today)

\* what a handler reads from the store file (lines 129, 208-209)
ReadStore(file) == read_csv(file)

\* ------------------------------------------------------------- the inputs
Sessions == {"A", "B"}      \* browser sessions; each runs the script on its own
Users == {"A"}              \* the session that acts when there is one operator

\* datetime.today() at the start: the noon of day 10
StartTime == DateToTimestamp(10) + 1

\* mock_inventory.csv as shipped: two rows
Seed ==
    <<[Product |-> "Milk", Category |-> "Dairy", StockQty |-> 20, WeeklySales |-> "10",
       ExpiryDate |-> DateToTimestamp(12), StoreID |-> "S01", Weather |-> "Sunny",
       HolidayFlag |-> 0],
      [Product |-> "Bread", Category |-> "Bakery", StockQty |-> 10, WeeklySales |-> "12",
       ExpiryDate |-> DateToTimestamp(16), StoreID |-> "S02", Weather |-> "Rainy",
       HolidayFlag |-> 1]>>

\* what the Add form submits (lines 104-111): a second Milk with the identity
\* of the shipped one, and a product whose name is the text NA
FormEntries ==
    {[Product |-> "Milk", Category |-> "Dairy", StockQty |-> 13, WeeklySales |-> 4,
      ExpiryDate |-> 12, StoreID |-> "S01", Weather |-> "Sunny", HolidayFlag |-> 0],
     [Product |-> "NA", Category |-> "Snacks", StockQty |-> 5, WeeklySales |-> 20,
      ExpiryDate |-> 20, StoreID |-> "S03", Weather |-> "Hot", HolidayFlag |-> 1]}

\* entries a session may hold staged in st.session_state["manual_data"] (line 91)
StagedEntries ==
    {[Product |-> "Chips", Category |-> "Snacks", StockQty |-> 6, WeeklySales |-> 5,
      ExpiryDate |-> 14, StoreID |-> "S02", Weather |-> "Hot", HolidayFlag |-> 0]}

\* the selections the user makes in the category filter (line 145)
CategoryPicks == {{"Dairy"}}

\* files the uploader may hold (line 79): one whose row has the identity of
\* the shipped Milk and an ExpiryDate with a time of day, and one whose
\* WeeklySales is not a number
UploadFiles ==
    {<<[Product |-> "Milk", Category |-> "Dairy", StockQty |-> 2, WeeklySales |-> "3",
        ExpiryDate |-> DateToTimestamp(12) + 1, StoreID |-> "S01", Weather |-> "Hot",
        HolidayFlag |-> 1]>>,
     <<[Product |-> "Tea", Category |-> "Beverages", StockQty |-> 4,
        WeeklySales |-> "abc", ExpiryDate |-> DateToTimestamp(18), StoreID |-> "S02",
        Weather |-> "Rainy", HolidayFlag |-> 0]>>}

\* a fit that keeps the model of an earlier run when there is one
RefitCached(old, d) == IF old.ok THEN old ELSE train_model(d)

\* stateless refit (line 96): train_model builds a new Pipeline in every run
\* and fits it on the frame of that run; nothing of an earlier fit is used
Refit(old, d) == train_model(d)

\* ------------------------------------------------------ the state machine
NoEvent == [type |-> "none", arg |-> <<>>]
NoOp == [op |-> "none", entry |-> <<>>, row |-> <<>>, stale |-> FALSE]
NoRun == [store |-> <<>>, upload |-> <<>>, staged |-> <<>>, now |-> 0, now_staged |-> 0,
          fit_on |-> <<>>, predict_on |-> <<>>]
NoWidget == [options |-> 0, value |-> 0]
NoPrev == [in |-> NoRun, out |-> <<>>]

\* whether two runs read the same store or upload, staged entries and clock
SameInputs(a, b) ==
    /\ a.store = b.store
    /\ a.upload = b.upload
    /\ a.staged = b.staged
    /\ a.now = b.now

\* a page nobody has touched: what Init fixes apart from the position of the
\* run and its stages so far, the frame, the staged entries and the filter
InitPage ==
    /\ store = Seed
    /\ today = StartTime
    /\ ticks = 0
    /\ event = [s \in Sessions |-> NoEvent]
    /\ uploaded_file = [s \in Sessions |-> <<>>]
    /\ show_delete = [s \in Sessions |-> FALSE]
    /\ selected_idx = [s \in Sessions |-> NoWidget]
    /\ model = [s \in Sessions |-> NoModel]
    /\ filtered_df = [s \in Sessions |-> <<>>]
    /\ at_risk = [s \in Sessions |-> <<>>]
    /\ local = [s \in Sessions |-> <<>>]
    /\ message = [s \in Sessions |-> "none"]
    /\ run_in = [s \in Sessions |-> NoRun]
    /\ prev_run = [s \in Sessions |-> NoPrev]
    /\ last_op = [s \in Sessions |-> NoOp]

Init ==
    /\ InitPage
    /\ trace = [s \in Sessions |-> <<>>]
    /\ pc = [s \in Sessions |-> "start"]
    /\ manual_data = [s \in Sessions |-> <<>>]
    /\ selected_category = [s \in Sessions |-> [options |-> {}, value |-> {}]]
    /\ df = [s \in Sessions |-> <<>>]

\* line 90: the script's first stage.  The names and the page of the previous
\* run are gone.  The record of the previous run is kept while this run reads
\* the same inputs
Load(s) ==
    /\ pc[s] = "start"
    /\ LET in == [NoRun EXCEPT !.store = store, !.upload = uploaded_file[s],
                               !.staged = manual_data[s], !.now = today,
                               !.now_staged = today]
       IN  /\ run_in' = [run_in EXCEPT ![s] = in]
           /\ prev_run' = [prev_run EXCEPT ![s] =
                             IF SameInputs(@.in, in) THEN @ ELSE NoPrev]
    /\ df' = [df EXCEPT ![s] = load_data(uploaded_file[s], store, today)]
    /\ filtered_df' = [filtered_df EXCEPT ![s] = <<>>]
    /\ at_risk' = [at_risk EXCEPT ![s] = <<>>]
    /\ message' = [message EXCEPT ![s] = "none"]
    /\ trace' = [trace EXCEPT ![s] = <<"load">>]
    /\ pc' = [pc EXCEPT ![s] = "loaded"]
    /\ UNCHANGED <<store, today, ticks, event, uploaded_file, manual_data,
                   selected_category, show_delete, selected_idx, model, local, last_op>>

\* lines 91-95: the staged entries, when the session holds any
AppendManual(s) ==
    /\ pc[s] = "loaded"
    /\ df' = [df EXCEPT ![s] =
                IF manual_data[s] # <<>>
                THEN concat(@, manual_df(manual_data[s], today)) ELSE @]
    /\ trace' = [trace EXCEPT ![s] =
                   IF manual_data[s] # <<>> THEN Append(@, "staged") ELSE @]
    /\ run_in' = [run_in EXCEPT ![s].now_staged = today]
    /\ prev_run' = [prev_run EXCEPT ![s] =
                      IF @.in.now_staged = today THEN @ ELSE NoPrev]
    /\ last_op' = [last_op EXCEPT ![s] = NoOp]
    /\ pc' = [pc EXCEPT ![s] = "combined"]
    /\ UNCHANGED <<store, today, ticks, event, uploaded_file, manual_data,
                   selected_category, show_delete, selected_idx, model, filtered_df,
                   at_risk, local, message>>

\* line 96: the fit; an exception ends the run with the traceback on the page
Fit(s) ==
    /\ pc[s] = "combined"
    /\ model' = [model EXCEPT ![s] = Refit(@, df[s])]
    /\ pc' = [pc EXCEPT ![s] = IF model'[s].ok THEN "fitted" ELSE "failed"]
    /\ message' = [message EXCEPT ![s] = IF model'[s].ok THEN @ ELSE "exception"]
    /\ trace' = [trace EXCEPT ![s] = Append(@, "fit")]
    /\ run_in' = [run_in EXCEPT ![s].fit_on = df[s]]
    /\ UNCHANGED <<store, today, ticks, event, uploaded_file, manual_data,
                   selected_category, show_delete, selected_idx, df, filtered_df,
                   at_risk, local, prev_run, last_op>>

\* line 97
Predict(s) ==
    /\ pc[s] = "fitted"
    /\ df' = [df EXCEPT ![s] = apply_predictions(@, model[s])]
    /\ trace' = [trace EXCEPT ![s] = Append(@, "predict")]
    /\ run_in' = [run_in EXCEPT ![s].predict_on = df[s]]
    /\ pc' = [pc EXCEPT ![s] = "predicted"]
    /\ UNCHANGED <<store, today, ticks, event, uploaded_file, manual_data,
                   selected_category, show_delete, selected_idx, model, filtered_df,
                   at_risk, local, message, prev_run, last_op>>

\* line 98
Classify(s) ==
    /\ pc[s] = "predicted"
    /\ df' = [df EXCEPT ![s] = classify_risk(@)]
    /\ trace' = [trace EXCEPT ![s] = Append(@, "classify")]
    /\ pc' = [pc EXCEPT ![s] = "classified"]
    /\ UNCHANGED <<store, today, ticks, event, uploaded_file, manual_data,
                   selected_category, show_delete, selected_idx, model, filtered_df,
                   at_risk, local, message, run_in, prev_run, last_op>>

\* lines 115-131: the Add Item handler reads the whole store file
AddRead(s) ==
    /\ pc[s] = "classified"
    /\ event[s].type = "add"
    /\ local' = [local EXCEPT ![s] = ReadStore(store)]
    /\ prev_run' = [prev_run EXCEPT ![s] = [in |-> run_in[s], out |-> df[s]]]
    /\ pc' = [pc EXCEPT ![s] = "add_read"]
    /\ UNCHANGED <<store, today, ticks, event, uploaded_file, manual_data,
                   selected_category, show_delete, selected_idx, df, model, filtered_df,
                   at_risk, message, trace, run_in, last_op>>

\* lines 134-140: ... and writes the whole file, reports success and reruns
AddWrite(s) ==
    /\ pc[s] = "add_read"
    /\ store' = to_csv(df_updated(local[s], event[s].arg[1]))
    /\ message' = [message EXCEPT ![s] = "added"]
    /\ last_op' = [last_op EXCEPT ![s] =
                      [op |-> "add", entry |-> event[s].arg, row |-> <<>>,
                       stale |-> read_csv(store) # local[s]]]
    /\ local' = [local EXCEPT ![s] = <<>>]
    /\ event' = [event EXCEPT ![s] = NoEvent]
    /\ pc' = [pc EXCEPT ![s] = "start"]
    /\ UNCHANGED <<today, ticks, uploaded_file, manual_data, selected_category,
                   show_delete, selected_idx, df, model, filtered_df, at_risk, trace,
                   run_in, prev_run>>

\* lines 143-206: the filter, the at-risk subset, the delete mode and its
\* selectbox.  A widget keeps its value while its options are the same and
\* starts from its default when they change or when it was not on the page
Render(s) ==
    /\ pc[s] = "classified"
    /\ event[s].type # "add"
    /\ selected_category' =
           [selected_category EXCEPT ![s] =
               [options |-> unique(df[s], "Category"),
                value |-> IF @.options = unique(df[s], "Category")
                          THEN @.value ELSE unique(df[s], "Category")]]
    /\ filtered_df' = [filtered_df EXCEPT ![s] = Filtered(df[s], selected_category'[s].value)]
    /\ at_risk' = [at_risk EXCEPT ![s] = AtRisk(filtered_df'[s])]
    /\ show_delete' = [show_delete EXCEPT ![s] = @ \/ event[s].type = "delete_button"]
    /\ selected_idx' =
           [selected_idx EXCEPT ![s] =
               IF ~show_delete'[s] THEN NoWidget
               ELSE IF @.options = Len(filtered_df'[s]) THEN @
               ELSE [options |-> Len(filtered_df'[s]), value |-> 0]]
    /\ pc' = [pc EXCEPT ![s] =
                IF show_delete'[s] /\ event[s].type = "confirm" THEN "confirm" ELSE "done"]
    /\ event' = [event EXCEPT ![s] = IF pc'[s] = "confirm" THEN @ ELSE NoEvent]
    /\ prev_run' = [prev_run EXCEPT ![s] = [in |-> run_in[s], out |-> df[s]]]
    /\ UNCHANGED <<store, today, ticks, uploaded_file, manual_data, df, model, local,
                   message, trace, run_in, last_op>>

\* lines 206-209: Confirm Delete reads the whole store file
DelRead(s) ==
    /\ pc[s] = "confirm"
    /\ local' = [local EXCEPT ![s] = ReadStore(store)]
    /\ pc' = [pc EXCEPT ![s] = "del_read"]
    /\ UNCHANGED <<store, today, ticks, event, uploaded_file, manual_data,
                   selected_category, show_delete, selected_idx, df, model, filtered_df,
                   at_risk, message, trace, run_in, prev_run, last_op>>

\* line 211: the row the selectbox points at
row(s) == filtered_df[s][selected_idx[s].value + 1]

\* lines 211-227: ... drops the rows that match the selected row, writes the
\* whole file, reports success, leaves the delete mode and reruns
DelWrite(s) ==
    /\ pc[s] = "del_read"
    /\ store' = to_csv(updated_df(local[s], row(s)))
    /\ last_op' = [last_op EXCEPT ![s] =
                      [op |-> "delete", entry |-> <<>>, row |-> <<row(s)>>,
                       stale |-> read_csv(store) # local[s]]]
    /\ message' = [message EXCEPT ![s] = "deleted"]
    /\ show_delete' = [show_delete EXCEPT ![s] = FALSE]
    /\ local' = [local EXCEPT ![s] = <<>>]
    /\ event' = [event EXCEPT ![s] = NoEvent]
    /\ pc' = [pc EXCEPT ![s] = "start"]
    /\ UNCHANGED <<today, ticks, uploaded_file, manual_data, selected_category,
                   selected_idx, df, model, filtered_df, at_risk, trace, run_in, prev_run>>

\* a widget event: Streamlit runs the script again from its first line
StartRun(s, ev) ==
    /\ pc' = [pc EXCEPT ![s] = "start"]
    /\ event' = [event EXCEPT ![s] = ev]
    /\ UNCHANGED <<message, last_op>>

\* line 79: the uploader is on the page even when the run failed below it
Upload(s, file) ==
    /\ pc[s] \in {"done", "failed"}
    /\ uploaded_file[s] # <<file>>
    /\ uploaded_file' = [uploaded_file EXCEPT ![s] = <<file>>]
    /\ StartRun(s, NoEvent)
    /\ UNCHANGED <<store, today, ticks, manual_data, selected_category, show_delete,
                   selected_idx, df, model, filtered_df, at_risk, local, trace, run_in,
                   prev_run>>

ClearUpload(s) ==
    /\ pc[s] \in {"done", "failed"}
    /\ uploaded_file[s] # <<>>
    /\ uploaded_file' = [uploaded_file EXCEPT ![s] = <<>>]
    /\ StartRun(s, NoEvent)
    /\ UNCHANGED <<store, today, ticks, manual_data, selected_category, show_delete,
                   selected_idx, df, model, filtered_df, at_risk, local, trace, run_in,
                   prev_run>>

\* lines 103-113: the form; the date input refuses a day before today
SubmitAdd(s, entry) ==
    /\ pc[s] = "done"
    /\ entry.ExpiryDate >= today \div 2
    /\ Len(store) < MaxStore
    /\ StartRun(s, [type |-> "add", arg |-> <<entry>>])
    /\ UNCHANGED <<store, today, ticks, uploaded_file, manual_data, selected_category,
                   show_delete, selected_idx, df, model, filtered_df, at_risk, local,
                   trace, run_in, prev_run>>

\* line 145: the user changes the multiselect
SelectCategory(s, sel) ==
    /\ pc[s] = "done"
    /\ sel \subseteq selected_category[s].options
    /\ sel # selected_category[s].value
    /\ selected_category' = [selected_category EXCEPT ![s].value = sel]
    /\ StartRun(s, NoEvent)
    /\ UNCHANGED <<store, today, ticks, uploaded_file, manual_data, show_delete,
                   selected_idx, df, model, filtered_df, at_risk, local, trace, run_in,
                   prev_run>>

\* line 185: the bin button
ClickDelete(s) ==
    /\ pc[s] = "done"
    /\ ~show_delete[s]
    /\ StartRun(s, [type |-> "delete_button", arg |-> <<>>])
    /\ UNCHANGED <<store, today, ticks, uploaded_file, manual_data, selected_category,
                   show_delete, selected_idx, df, model, filtered_df, at_risk, local,
                   trace, run_in, prev_run>>

\* line 200: the user picks another row in the selectbox
PickRow(s, i) ==
    /\ pc[s] = "done"
    /\ show_delete[s]
    /\ i # selected_idx[s].value
    /\ selected_idx' = [selected_idx EXCEPT ![s].value = i]
    /\ StartRun(s, NoEvent)
    /\ UNCHANGED <<store, today, ticks, uploaded_file, manual_data, selected_category,
                   show_delete, df, model, filtered_df, at_risk, local, trace, run_in,
                   prev_run>>

\* line 206: the Confirm Delete button
ClickConfirm(s) ==
    /\ pc[s] = "done"
    /\ show_delete[s]
    /\ StartRun(s, [type |-> "confirm", arg |-> <<>>])
    /\ UNCHANGED <<store, today, ticks, uploaded_file, manual_data, selected_category,
                   show_delete, selected_idx, df, model, filtered_df, at_risk, local,
                   trace, run_in, prev_run>>

\* a rerun that changes no widget (the export button of line 175, a reload key)
Refresh(s) ==
    /\ pc[s] \in {"done", "failed"}
    /\ StartRun(s, NoEvent)
    /\ UNCHANGED <<store, today, ticks, uploaded_file, manual_data, selected_category,
                   show_delete, selected_idx, df, model, filtered_df, at_risk, local,
                   trace, run_in, prev_run>>

\* the clock moves half a day on
Tick ==
    /\ ticks < MaxTicks
    /\ ticks' = ticks + 1
    /\ today' = today + 1
    /\ UNCHANGED <<store, pc, event, uploaded_file, manual_data, selected_category,
                   show_delete, selected_idx, df, model, filtered_df, at_risk, local,
                   message, trace, run_in, prev_run, last_op>>

Run(s) ==
    \/ Load(s) \/ AppendManual(s) \/ Fit(s) \/ Predict(s) \/ Classify(s)
    \/ AddRead(s) \/ AddWrite(s) \/ Render(s) \/ DelRead(s) \/ DelWrite(s)

Next ==
    \/ \E s \in Users : Run(s)
    \/ \E s \in Users, file \in UploadFiles : Upload(s, file)
    \/ \E s \in Users : ClearUpload(s)
    \/ \E s \in Users, entry \in FormEntries : SubmitAdd(s, entry)
    \/ \E s \in Users, sel \in CategoryPicks : SelectCategory(s, sel)
    \/ \E s \in Users : ClickDelete(s)
    \/ \E s \in Users : \E i \in 0..(Len(filtered_df[s]) - 1) : PickRow(s, i)
    \/ \E s \in Users : ClickConfirm(s)
    \/ \E s \in Users : Refresh(s)
    \/ Tick

Spec == Init /\ [][Next]_vars

\* ------------------------------------------- the classifier on drawn inputs
\* a row as line 98 receives it: the first shipped row, loaded, with the
\* three columns the classifier reads
RiskRow(S, pd, dte) ==
    SetCol(SetCol(SetCol(load_data(<<>>, Seed, StartTime)[1], "StockQty", S),
                  "PredictedDemand", pd), "DaysToExpire", dte)

\* DaysToExpire on both sides of the two limits 5 and 8, and an expired row
DaysDrawn == {-1, 4, 5, 7, 8}

\* PredictedDemand one hundredth below, at and one hundredth above 0.7 and
\* 0.9 of the stock
InitRisk ==
    /\ InitPage
    /\ manual_data = [s \in Sessions |-> <<>>]
    /\ selected_category = [s \in Sessions |-> [options |-> {}, value |-> {}]]
    /\ pc = [s \in Sessions |-> IF s \in Users THEN "predicted" ELSE "start"]
    /\ trace = [s \in Sessions |->
                  IF s \in Users THEN <<"load", "fit", "predict">> ELSE <<>>]
    /\ \E S \in 0..MaxStock, tenths \in {7, 9}, k \in -1..1, dte \in DaysDrawn :
           df = [s \in Sessions |->
                    IF s \in Users THEN <<RiskRow(S, 10 * tenths * S + k, dte)>> ELSE <<>>]

NextRisk == \E s \in Users : Classify(s)

SpecRisk == InitRisk /\ [][NextRisk]_vars

\* C1: every classified record carries the one level the priority rule over
\* the real numbers gives it: HIGH exactly when PredictedDemand < 0.7 x
\* StockQty and DaysToExpire < 5; MEDIUM exactly when not HIGH and
\* (PredictedDemand < 0.9 x StockQty or 5 <= DaysToExpire < 8); LOW otherwise
\* (PredictedDemand is in hundredths, so 0.7 x StockQty is 70 * StockQty)
C1_ExactlyOneLevel ==
    \A s \in Users : pc[s] = "classified" =>
        \A i \in 1..Len(df[s]) :
            LET r == df[s][i]
                high == r.PredictedDemand < 70 * r.StockQty /\ r.DaysToExpire < 5
                medium == /\ ~high
                          /\ \/ r.PredictedDemand < 90 * r.StockQty
                             \/ (5 <= r.DaysToExpire /\ r.DaysToExpire < 8)
            IN  r.RiskLevel = IF high THEN "HIGH" ELSE IF medium THEN "MEDIUM" ELSE "LOW"

\* ---------------------------------- the filter and the sort on drawn frames
\* an annotated row of the given category, predicted demand and days to expire
ViewRow(cat, pd, dte) ==
    classify_risk(<<SetCol(RiskRow(10, pd, dte), "Category", cat)>>)[1]

\* HIGH, MEDIUM and LOW rows of two categories; within HIGH and within MEDIUM
\* several DaysToExpire, and MEDIUM rows that expire before HIGH ones
ViewRows ==
    {ViewRow("Dairy", pd, dte) : pd \in {600, 800}, dte \in {2, 4, 6, 9}}
    \cup {ViewRow("Dairy", 1000, 9), ViewRow("Bakery", 600, 2), ViewRow("Bakery", 1000, 9)}

\* a run that has classified a frame of up to MaxRows rows; the multiselect
\* holds any selection of the categories present
InitView ==
    /\ InitPage
    /\ manual_data = [s \in Sessions |-> <<>>]
    /\ pc = [s \in Sessions |-> IF s \in Users THEN "classified" ELSE "start"]
    /\ trace = [s \in Sessions |->
                  IF s \in Users THEN <<"load", "fit", "predict", "classify">> ELSE <<>>]
    /\ \E n \in 1..MaxRows : \E fr \in [1..n -> ViewRows] :
       \E sel \in SUBSET unique(fr, "Category") :
           /\ df = [s \in Sessions |-> IF s \in Users THEN fr ELSE <<>>]
           /\ selected_category =
                  [s \in Sessions |->
                      IF s \in Users THEN [options |-> unique(fr, "Category"), value |-> sel]
                      ELSE [options |-> {}, value |-> {}]]

NextView == \E s \in Users : Render(s)

SpecView == InitView /\ [][NextView]_vars

\* C2: the at-risk subset holds exactly the HIGH and MEDIUM records of the
\* filtered set, each as often as the filtered set holds it, every HIGH record
\* before every MEDIUM record and, within one level, in ascending DaysToExpire
C2_AtRiskSubset ==
    \A s \in Users : pc[s] = "done" =>
        LET fd == filtered_df[s]
            ar == at_risk[s]
            Count(q, r) == Cardinality({i \in 1..Len(q) : q[i] = r})
        IN  /\ \A i \in 1..Len(ar) :
                   /\ ar[i].RiskLevel \in {"HIGH", "MEDIUM"}
                   /\ Count(fd, ar[i]) = Count(ar, ar[i])
            /\ \A i \in 1..Len(fd) :
                   fd[i].RiskLevel \in {"HIGH", "MEDIUM"} => Count(ar, fd[i]) = Count(fd, fd[i])
            /\ \A i \in 1..Len(ar) : \A j \in (i + 1)..Len(ar) :
                   /\ ~(ar[i].RiskLevel = "MEDIUM" /\ ar[j].RiskLevel = "HIGH")
                   /\ ar[i].RiskLevel = ar[j].RiskLevel
                          => ar[i].DaysToExpire <= ar[j].DaysToExpire

\* a rendered frame with a LOW record, and HIGH and MEDIUM records that the
\* sort had to reorder
C2_Witness ==
    \E s \in Users :
        /\ pc[s] = "done"
        /\ \E i \in 1..Len(filtered_df[s]) : filtered_df[s][i].RiskLevel = "LOW"
        /\ Len(at_risk[s]) >= 2
        /\ at_risk[s][1].RiskLevel = "HIGH"
        /\ at_risk[s][Len(at_risk[s])].RiskLevel = "MEDIUM"
        /\ at_risk[s] # SelectSeq(filtered_df[s], LAMBDA r : r.RiskLevel # "LOW")

\* C3: with an empty selection the filtered set is the whole annotated set,
\* which is what selecting every category present gives; with a non-empty
\* selection it is exactly the records whose Category is selected, in order
C3_EmptySelectionIsAll ==
    \A s \in Users : pc[s] = "done" =>
        LET sel == selected_category[s].value
            all == unique(df[s], "Category")
        IN  /\ sel = {} =>
                   /\ filtered_df[s] = df[s]
                   /\ filtered_df[s] = SelectSeq(df[s], LAMBDA r : r.Category \in all)
            /\ sel # {} => filtered_df[s] = SelectSeq(df[s], LAMBDA r : r.Category \in sel)

\* a frame of two categories rendered with nothing selected
C3_Witness ==
    \E s \in Users :
        /\ pc[s] = "done"
        /\ selected_category[s].value = {}
        /\ Cardinality(unique(df[s], "Category")) = 2
        /\ Len(filtered_df[s]) = Len(df[s])

\* ------------------------------------------------- properties of the runs
\* the identity a record is deleted by
IdentityTuple(r) == <<r.Product, r.Category, r.StoreID, normalize(r.ExpiryDate)>>

\* whether the loaded record r has every field of the submitted entry e
MatchesEntry(r, e) ==
    /\ r.Product = e.Product
    /\ r.Category = e.Category
    /\ r.StockQty = e.StockQty
    /\ IsNumeric(r.WeeklySales) /\ ParseNumber(r.WeeklySales) = e.WeeklySales
    /\ r.ExpiryDate = DateToTimestamp(e.ExpiryDate)
    /\ r.StoreID = e.StoreID
    /\ r.Weather = e.Weather
    /\ r.HolidayFlag = e.HolidayFlag

\* C4: the run that follows an Add Item and loads the store has a record with
\* every field of the submitted entry; the run that follows a Confirm Delete
\* and loads the store has no record with the identity of the deleted row
C4_RoundTrip ==
    \A s \in Users : pc[s] = "loaded" /\ uploaded_file[s] = <<>> =>
        /\ last_op[s].op = "add" =>
               \E i \in 1..Len(df[s]) : MatchesEntry(df[s][i], last_op[s].entry[1])
        /\ last_op[s].op = "delete" =>
               \A i \in 1..Len(df[s]) :
                   IdentityTuple(df[s][i]) # IdentityTuple(last_op[s].row[1])

\* C5: a confirmed delete leaves in the store exactly the records whose
\* identity differs from the selected row's, unchanged and in their order (so
\* every record with that identity is gone, and nothing changes when there is
\* none), and reports no error
C5_DeleteFrame ==
    [][\A s \in Users : pc[s] = "del_read" /\ pc'[s] = "start" =>
          /\ read_csv(store') =
                 SelectSeq(read_csv(store),
                           LAMBDA r : IdentityTuple(r) # IdentityTuple(row(s)))
          /\ message'[s] = "deleted"]_vars

\* C7: no row of the store file has a derived column (every row has exactly
\* the eight input columns), and while a run is between its load and the end
\* of its rendering the store is what it was when the run began
C7_StoreHoldsInputsOnly ==
    /\ \A i \in 1..Len(store) :
           DOMAIN store[i] \cap Derived = {} /\ DOMAIN store[i] = Persisted
    /\ \A s \in Users :
           pc[s] \in {"loaded", "combined", "fitted", "failed", "predicted", "classified",
                      "confirm", "done"}
               => store = run_in[s].store

\* the store after a delete and an append, the appended row in it
C7_Witness ==
    \E s \in Users :
        /\ last_op[s].op = "add"
        /\ store # Seed
        /\ \E i \in 1..Len(store) : store[i] = WriteRow(EntryRow(last_op[s].entry[1]))

\* the annotated frame a run computes from what it read, with a model of its own
Pipeline(in) ==
    LET combined == load_data(in.upload, in.store, in.now)
                    \o manual_df(in.staged, in.now_staged)
    IN  classify_risk(apply_predictions(combined, train_model(combined)))

C10_FailedFitAborts ==
    \A s \in Users :
        /\ pc[s] \in {"fitted", "failed"} =>
               (pc[s] = "failed" <=>
                    \/ run_in[s].fit_on = <<>>
                    \/ \E i \in 1..Len(run_in[s].fit_on) :
                           ~IsNumeric(run_in[s].fit_on[i].WeeklySales))
        /\ Cardinality({k \in 1..Len(trace[s]) : trace[s][k] = "fit"}) <= 1
        /\ pc[s] = "failed" =>
               /\ message[s] = "exception"
               /\ trace[s][Len(trace[s])] = "fit"
               /\ \A i \in 1..Len(df[s]) :
                      DOMAIN df[s][i] \cap {"PredictedDemand", "RiskLevel"} = {}
               /\ store = run_in[s].store

\* a run that failed on the store emptied by deletes
C10_Witness ==
    \E s \in Users :
        /\ pc[s] = "failed"
        /\ store = <<>>
        /\ run_in[s].fit_on = <<>>
        /\ message[s] = "exception"

\* ------------------------------------------------- runs with staged entries
\* the session may hold staged entries when the script starts
InitStaged ==
    /\ InitPage
    /\ trace = [s \in Sessions |-> <<>>]
    /\ pc = [s \in Sessions |-> "start"]
    /\ selected_category = [s \in Sessions |-> [options |-> {}, value |-> {}]]
    /\ df = [s \in Sessions |-> <<>>]
    /\ \E staged \in {<<>>} \cup {<<e>> : e \in StagedEntries} :
           manual_data = [s \in Sessions |-> IF s \in Users THEN staged ELSE <<>>]

SpecStaged == InitStaged /\ [][Next]_vars

\* C9: the stages of a run are load, the staged entries when there are any,
\* fit, predict, classify, in this order; the fit is on the loaded records
\* followed by the staged ones with their DaysToExpire, the prediction on the
\* same frame, and after classify every one of these records carries
\* DaysToExpire, PredictedDemand and RiskLevel
C9_StageOrder ==
    \A s \in Users :
        LET in == run_in[s]
            combined == load_data(in.upload, in.store, in.now)
                        \o manual_df(in.staged, in.now_staged)
            order == IF in.staged # <<>>
                     THEN <<"load", "staged", "fit", "predict", "classify">>
                     ELSE <<"load", "fit", "predict", "classify">>
        IN  /\ Len(trace[s]) <= Len(order)
            /\ trace[s] = SubSeq(order, 1, Len(trace[s]))
            /\ pc[s] \in {"fitted", "failed", "predicted", "classified"} =>
                   in.fit_on = combined
            /\ pc[s] \in {"predicted", "classified"} => in.predict_on = in.fit_on
            /\ pc[s] = "classified" =>
                   /\ Len(df[s]) = Len(combined)
                   /\ \A i \in 1..Len(df[s]) :
                          /\ DOMAIN df[s][i] = Persisted \cup Derived
                          /\ Restrict(df[s][i], Persisted \cup {"DaysToExpire"}) = combined[i]

\* a classified run whose frame ends with a staged entry
C9_Witness ==
    \E s \in Users :
        /\ pc[s] = "classified"
        /\ run_in[s].staged # <<>>
        /\ trace[s] = <<"load", "staged", "fit", "predict", "classify">>
        /\ Len(df[s]) = Len(run_in[s].store) + 1
        /\ df[s][Len(df[s])].Product = "Chips"

\* ------------------------------------------------------------ two sessions
\* two sessions on one store file: one deletes, the other appends, and the
\* steps of their runs interleave
NextRace ==
    \/ \E s \in Sessions : Run(s)
    \/ \E entry \in FormEntries : SubmitAdd("B", entry)
    \/ ClickDelete("A")
    \/ ClickConfirm("A")

SpecRace == Init /\ [][NextRace]_vars

\* C6: a handler writes the frame it read earlier with its own change applied,
\* whatever the file holds by then: nothing is locked and nothing is compared
C6_LastWriterWins ==
    [][\A s \in Sessions :
          /\ pc[s] = "add_read" /\ pc'[s] = "start" =>
                 read_csv(store') = local[s] \o <<ReadRow(WriteRow(EntryRow(event[s].arg[1])))>>
          /\ pc[s] = "del_read" /\ pc'[s] = "start" =>
                 read_csv(store') = SelectSeq(local[s], LAMBDA r : ~condition(r, row(s)))]_vars

\* one session was told its entry was added, the other, whose read came
\* before that append and whose write came after it, that its row was
\* deleted: the store lacks the appended record
C6_Witness ==
    \E s \in Sessions, t \in Sessions :
        /\ s # t
        /\ last_op[s].op = "delete"
        /\ last_op[s].stale
        /\ last_op[t].op = "add"
        /\ \A i \in 1..Len(store) : store[i] # WriteRow(EntryRow(last_op[t].entry[1]))

\* the other order of the two writes: the store holds the deleted record again
C6_DeletedIsBack ==
    \E s \in Sessions, t \in Sessions :
        /\ s # t
        /\ last_op[s].op = "delete"
        /\ last_op[t].op = "add"
        /\ last_op[t].stale
        /\ ~condition(ReadRow(WriteRow(EntryRow(last_op[t].entry[1]))), last_op[s].row[1])
        /\ \E i \in 1..Len(store) : condition(ReadRow(store[i]), last_op[s].row[1])
====
